---- MODULE Spec2Model ----
(***************************************************************************)
(* blink: a winit/wgpu cube viewer (src/src/main.rs).                       *)
(*                                                                         *)
(* The state is struct App (its Option fields and the Camera), the state   *)
(* the window layer and the GPU hold for it (the pending redraw request,   *)
(* the surface a handler creates and configures, the images acquired from  *)
(* it), and what has become of the process (event loop exited, panicked).  *)
(* There is one action per ApplicationHandler callback; the event loop is  *)
(* single threaded, so a callback runs to completion before the next one.  *)
(* `calls` is the sequence of window/GPU calls the last callback made, in  *)
(* program order.                                                          *)
(*                                                                         *)
(* Units: f32 values that only ever come from a division of two window     *)
(* dimensions are kept as exact fractions (with IEEE inf and NaN); fov is  *)
(* in milliradians, near/far in tenths, colours in tenths, angles of a     *)
(* mouse rotation in hundredths of a radian.                               *)
(***************************************************************************)
EXTENDS Integers, Sequences, FiniteSets, TLC

VARIABLES
    window,              \* App.window is Some
    instance,            \* App.instance is Some
    device,              \* App.device is Some
    queue,               \* App.queue is Some
    config,              \* App.config: None or a SurfaceConfiguration
    camera,              \* App.camera
    render_pipeline,     \* App.render_pipeline: None or the pipeline
    vertex_buffer,       \* App.vertex_buffer: None or its contents
    index_buffer,        \* App.index_buffer: None or its contents
    uniform_buffer,      \* App.uniform_buffer: None or its contents
    uniform_bind_group,  \* App.uniform_bind_group is Some
    pending_redraw,      \* redraw requests the window holds, not yet delivered
    surface,             \* size last applied to the surface of the last callback
    swapchain,           \* images acquired and not yet presented
    exiting,             \* event_loop.exit() has been called
    exited,              \* the event loop has stopped: run_app has returned
    panicked,            \* the process has panicked (an unwrap, a backend fault)
    calls,               \* window/GPU calls of the last callback, in order
    last_event,          \* the event the last callback handled
    last_resize,         \* size carried by the latest Resized event, or None
    acquire_plan,        \* what the surface answers to the acquires of the last frame
    last_motion,         \* delta carried by the latest MouseMotion event, or None
    resize_repeat,       \* the last two events were Resized with the same size
    draw_call            \* arguments of the draw_indexed call of the last frame

vars == <<window, instance, device, queue, config, camera, render_pipeline,
          vertex_buffer, index_buffer, uniform_buffer, uniform_bind_group,
          pending_redraw, surface, swapchain, exiting, exited, panicked, calls,
          last_event, last_resize, acquire_plan, last_motion, resize_repeat,
          draw_call>>

\* Option<T>: None is the empty sequence, Some(x) the sequence of x alone
None == <<>>
Some(x) == <<x>>
IsSome(o) == o # <<>>
Unwrap(o) == o[1]

-----------------------------------------------------------------------------
(* Bounds of the model.                                                    *)

\* window dimensions range over 0..MaxDim
MaxDim == 2
\* at most MaxMotions mouse-motion events rotate the camera in one run
MaxMotions == 1

Dims == 0 .. MaxDim
\* raw mouse deltas of one MouseMotion event: delta.0 ranges over Deltas,
\* delta.1 over PitchDeltas (200 turns the pitch by 2 rad, past a right angle)
Deltas == {0, 100}
PitchDeltas == {0, 200}
\* results of Surface::get_current_texture (Ok or a SurfaceError)
AcquireResults == {"Ok", "Timeout", "Outdated", "Lost"}
\* what the surface would answer to a first acquire and, if that one fails,
\* to a second one in the same frame
AcquirePlans == {<<"Ok">>} \cup
                {<<e, r>> : e \in AcquireResults \ {"Ok"}, r \in {"Ok", "Lost"}}

-----------------------------------------------------------------------------
(* f32 division of two window dimensions (u32 as f32 / u32 as f32).        *)

RECURSIVE GCD(_, _)
GCD(a, b) == IF b = 0 THEN a ELSE GCD(b, a % b)

Finite(n, d) == [kind |-> "finite", num |-> n, den |-> d]
Inf == [kind |-> "inf", num |-> 1, den |-> 0]
NaN == [kind |-> "nan", num |-> 0, den |-> 0]

\* IEEE 754: x/0 is +inf for x > 0 and NaN for x = 0; no trap is raised
F32Div(w, h) ==
    IF h = 0 THEN (IF w = 0 THEN NaN ELSE Inf)
    ELSE LET g == GCD(w, h) IN Finite(w \div g, h \div g)

\* x > 0.0 on f32 (false for NaN)
F32Positive(x) == x.kind = "inf" \/ (x.kind = "finite" /\ x.num > 0)

-----------------------------------------------------------------------------
(* Camera.                                                                 *)

\* f32::to_radians, in milliradians
ToRadians(deg) == (deg * 3141593) \div 180000

CameraDefault ==
    [position |-> <<0, 0, 5>>,
     rotation |-> <<>>,
     fov      |-> ToRadians(45),
     aspect   |-> Finite(1, 1),
     near     |-> 1,
     far      |-> 1000]

\* Quat::from_axis_angle(axis, angle), angle in hundredths of a radian
from_axis_angle(axis, angle) == [axis |-> axis, angle |-> angle]

\* a rotation whose pitch stops at a right angle (157 hundredths of a radian)
Rotate_clamped(rotation, dx, dy) ==
    <<from_axis_angle("Y", dx),
      from_axis_angle("X", IF dy > 157 THEN 157 ELSE dy)>> \o rotation

\* A rotation is kept as the product it is, leftmost factor first; the
\* identity is the empty product.  rot_y * rot_x * rotation:
Rotate(rotation, dx, dy) ==
    <<from_axis_angle("Y", dx), from_axis_angle("X", dy)>> \o rotation

\* The value of a rotation, in fixed point: a quaternion <<x, y, z, w>> whose
\* components are multiples of 1/Scale.
Scale == 10 ^ 4

Abs(n) == IF n < 0 THEN -n ELSE n

\* n / d rounded to the nearest integer
RoundDiv(n, d) == (2 * n + d) \div (2 * d)

SeriesTerms == 12

\* t - t x^2/(n(n+1)) + t x^4/(n(n+1)(n+2)(n+3)) - ... : the power series of
\* sin (t = x, n = 2) and of cos (t = 1, n = 1)
RECURSIVE Series(_, _, _)
Series(x, t, n) ==
    IF n > SeriesTerms \/ t = 0 THEN t
    ELSE t + Series(x, -RoundDiv(RoundDiv(t * x, Scale) * x, Scale * n * (n + 1)),
                    n + 2)

Sin(x) == Series(x, x, 2)
Cos(x) == Series(x, Scale, 1)

\* the angles the events can carry, in hundredths of a radian
Angles == Deltas \cup PitchDeltas

\* sine and cosine of half of each angle
HalfAngle == [a \in Angles |->
                 [sin |-> Sin(a * (Scale \div 200)), cos |-> Cos(a * (Scale \div 200))]]

\* the quaternion Quat::from_axis_angle builds: (axis * sin(angle/2), cos(angle/2))
quat(f) ==
    IF f.axis = "Y" THEN <<0, HalfAngle[f.angle].sin, 0, HalfAngle[f.angle].cos>>
                    ELSE <<HalfAngle[f.angle].sin, 0, 0, HalfAngle[f.angle].cos>>

IDENTITY == <<0, 0, 0, Scale>>

\* a product that adds the components
quat_add(a, b) == <<a[1] + b[1], a[2] + b[2], a[3] + b[3], a[4] + b[4]>>

\* Quat * Quat, the Hamilton product
quat_mul(a, b) ==
    <<RoundDiv(a[4] * b[1] + a[1] * b[4] + a[2] * b[3] - a[3] * b[2], Scale),
      RoundDiv(a[4] * b[2] - a[1] * b[3] + a[2] * b[4] + a[3] * b[1], Scale),
      RoundDiv(a[4] * b[3] + a[1] * b[2] - a[2] * b[1] + a[3] * b[4], Scale),
      RoundDiv(a[4] * b[4] - a[1] * b[1] - a[2] * b[2] - a[3] * b[3], Scale)>>

\* the value of a stored rotation: each event multiplied (rot_y * rot_x) into
\* what was there
RECURSIVE quat_value(_)
quat_value(rotation) ==
    IF rotation = <<>> THEN IDENTITY
    ELSE quat_mul(quat_mul(quat(rotation[1]), quat(rotation[2])),
                  quat_value(SubSeq(rotation, 3, Len(rotation))))

length_squared(q) ==
    RoundDiv(q[1] * q[1] + q[2] * q[2] + q[3] * q[3] + q[4] * q[4], Scale)

view_matrix(c) == [translation |-> <<-c.position[1], -c.position[2], -c.position[3]>>,
                   rotation |-> c.rotation]

projection_matrix(c) == [fov |-> c.fov, aspect |-> c.aspect,
                         near |-> c.near, far |-> c.far]

\* Uniforms { view_proj: projection_matrix() * view_matrix() }
Uniforms(c) == [proj |-> projection_matrix(c), view |-> view_matrix(c)]

-----------------------------------------------------------------------------
(* Geometry.                                                               *)

Vertex(p, c) == [position |-> p, color |-> c]

create_cube_vertices ==
    << Vertex(<<-1, -1,  1>>, <<10,  0,  0>>),
       Vertex(<< 1, -1,  1>>, << 0, 10,  0>>),
       Vertex(<< 1,  1,  1>>, << 0,  0, 10>>),
       Vertex(<<-1,  1,  1>>, <<10, 10,  0>>),
       Vertex(<<-1, -1, -1>>, <<10,  0, 10>>),
       Vertex(<<-1,  1, -1>>, << 0, 10, 10>>),
       Vertex(<< 1,  1, -1>>, <<10, 10, 10>>),
       Vertex(<< 1, -1, -1>>, << 5,  5,  5>>) >>

\* an index table whose last entry points past the vertex table
create_cube_indices_out_of_range ==
    << 0, 1, 2,  2, 3, 0,
       4, 5, 6,  6, 7, 4,
       0, 4, 7,  7, 1, 0,
       2, 6, 5,  5, 3, 2,
       0, 3, 5,  5, 4, 0,
       1, 7, 6,  6, 2, 8 >>

\* an index table whose first triangle is wound the other way round
create_cube_indices_flipped ==
    << 0, 2, 1,  1, 3, 0,
       4, 5, 6,  6, 7, 4,
       0, 4, 7,  7, 1, 0,
       2, 6, 5,  5, 3, 2,
       0, 3, 5,  5, 4, 0,
       1, 7, 6,  6, 2, 1 >>

create_cube_indices ==
    << 0, 1, 2,  2, 3, 0,
       4, 5, 6,  6, 7, 4,
       0, 4, 7,  7, 1, 0,
       2, 6, 5,  5, 3, 2,
       0, 3, 5,  5, 4, 0,
       1, 7, 6,  6, 2, 1 >>

-----------------------------------------------------------------------------
(* Initial state: App::default(), before the event loop runs.              *)

Init ==
    /\ window = FALSE
    /\ instance = FALSE
    /\ device = FALSE
    /\ queue = FALSE
    /\ config = None
    /\ camera = CameraDefault
    /\ render_pipeline = None
    /\ vertex_buffer = None
    /\ index_buffer = None
    /\ uniform_buffer = None
    /\ uniform_bind_group = FALSE
    /\ pending_redraw = 0
    /\ surface = None
    /\ swapchain = [acquired |-> 0, submitted |-> FALSE,
                    peak |-> 0, early_present |-> FALSE]
    /\ exiting = FALSE
    /\ exited = FALSE
    /\ panicked = FALSE
    /\ calls = <<>>
    /\ last_event = "None"
    /\ last_resize = None
    /\ acquire_plan = <<>>
    /\ last_motion = None
    /\ resize_repeat = FALSE
    /\ draw_call = None

-----------------------------------------------------------------------------
(* The window and the GPU, as the callbacks use them.                      *)

Has(s, c) == \E i \in 1 .. Len(s) : s[i] = c

Max(a, b) == IF a >= b THEN a ELSE b

\* Window::request_redraw: the window holds one redraw request; a request
\* made while one is pending merges with it
request_redraw(pending) == IF pending = 0 THEN 1 ELSE pending

\* Surface::configure(device, config) returns for a configuration of
\* non-zero area.  A zero-area configuration is a validation error of the
\* backend, which panics; `accepts` stands for a backend that lets it pass.
\* the values of `accepts` that make a difference
configure_outcomes(w, h) == IF w > 0 /\ h > 0 THEN {TRUE} ELSE BOOLEAN

configure_returns(w, h, accepts) == (w > 0 /\ h > 0) \/ accepts

\* a resize that stores the new height and forgets the new width
resize_config_height_only(cfg, w, h) == [cfg EXCEPT !.height = h]

\* config.width = physical_size.width; config.height = physical_size.height
\* a resize that also switches the presentation to Immediate
resize_config_immediate(cfg, w, h) ==
    [cfg EXCEPT !.width = w, !.height = h, !.present_mode = "Immediate"]

\* a resize that adds the new width to the stored one
resize_config_accumulating(cfg, w, h) ==
    [cfg EXCEPT !.width = @ + w, !.height = h]

resize_config(cfg, w, h) == [cfg EXCEPT !.width = w, !.height = h]

\* a frame that presents its image before it submits the commands
frame_calls_present_first ==
    << "create_view", "write_buffer", "create_command_encoder",
       "begin_render_pass", "set_pipeline", "set_bind_group",
       "set_vertex_buffer", "set_index_buffer", "draw_indexed",
       "present", "submit" >>

\* a frame that writes the uniforms after it submitted the commands
frame_calls_write_after_submit ==
    << "create_view", "create_command_encoder",
       "begin_render_pass", "set_pipeline", "set_bind_group",
       "set_vertex_buffer", "set_index_buffer", "draw_indexed",
       "submit", "write_buffer", "present" >>

\* a frame that leaves the uniform buffer as it was
frame_calls_no_write ==
    << "create_view", "create_command_encoder",
       "begin_render_pass", "set_pipeline", "set_bind_group",
       "set_vertex_buffer", "set_index_buffer", "draw_indexed",
       "submit", "present" >>

\* the calls of one frame after its image is acquired
frame_calls ==
    << "create_view", "write_buffer", "create_command_encoder",
       "begin_render_pass", "set_pipeline", "set_bind_group",
       "set_vertex_buffer", "set_index_buffer", "draw_indexed",
       "submit", "present" >>

\* App::render with every field Some: the calls it makes, in order, up to its
\* return or its panic.  `configured`: surface.configure returned; `res`: the
\* result of get_current_texture, which is unwrapped.
render_calls(configured, res) ==
    <<"create_surface", "configure">> \o
    (IF ~configured THEN <<>>
     ELSE <<"get_current_texture">> \o (IF res = "Ok" THEN frame_calls ELSE <<>>))

\* render_pass.draw_indexed(0..36, 0, 0..1)
draw_indexed_args == [indices |-> <<0, 36>>, base_vertex |-> 0,
                      instances |-> <<0, 1>>]

\* a frame that brings the camera's aspect in line with the surface
render_camera_syncs_aspect(c, cfg) ==
    [c EXCEPT !.aspect = F32Div(cfg.width, cfg.height)]

\* what App::render does to the camera: it only reads it, through
\* projection_matrix(&self) and view_matrix(&self)
render_camera(c, cfg) == c

\* the effect of one call on the images in flight
track(s, call, res) ==
    CASE call = "get_current_texture" /\ res = "Ok" ->
            [s EXCEPT !.acquired = @ + 1, !.submitted = FALSE,
                      !.peak = Max(@, s.acquired + 1)]
      [] call = "submit" -> [s EXCEPT !.submitted = TRUE]
      [] call = "present" ->
            [s EXCEPT !.acquired = Max(@ - 1, 0),
                      !.early_present = @ \/ ~s.submitted]
      [] OTHER -> s

RECURSIVE track_all(_, _, _)
track_all(s, cs, res) ==
    IF cs = <<>> THEN s ELSE track_all(track(s, Head(cs), res), Tail(cs), res)

\* the condition of `if let (Some(device), ..., Some(uniform_bind_group))`
render_ready ==
    /\ device /\ instance /\ queue /\ IsSome(config)
    /\ IsSome(render_pipeline) /\ IsSome(vertex_buffer)
    /\ IsSome(index_buffer) /\ uniform_bind_group

\* the process is alive and the event loop dispatches events.  exit() only
\* asks the loop to stop: the loop finishes its iteration, in which events
\* already queued are still dispatched, and then returns (LoopExit).
Running == ~exited /\ ~panicked

-----------------------------------------------------------------------------
(* ApplicationHandler::resumed, with App::init_graphics.                   *)
(* (w, h) is window.inner_size(); found: an adapter and a device exist.    *)

Resumed(w, h, found) ==
    /\ Running /\ ~window
    /\ window' = TRUE
    /\ last_event' = "Resumed"
    /\ IF found
       THEN /\ instance' = TRUE /\ device' = TRUE /\ queue' = TRUE
            /\ config' = Some([usage |-> "RENDER_ATTACHMENT",
                               format |-> "formats[0]",
                               width |-> w, height |-> h,
                               present_mode |-> "Fifo",
                               alpha_mode |-> "alpha_modes[0]",
                               desired_maximum_frame_latency |-> 2])
            /\ surface' = Some([width |-> w, height |-> h])
            /\ render_pipeline' = Some([topology |-> "TriangleList",
                                        front_face |-> "Ccw",
                                        cull_mode |-> "Back",
                                        polygon_mode |-> "Fill",
                                        format |-> "formats[0]"])
            /\ vertex_buffer' = Some(create_cube_vertices)
            /\ index_buffer' = Some(create_cube_indices)
            /\ uniform_buffer' = Some(Uniforms(camera))
            /\ uniform_bind_group' = TRUE
            /\ pending_redraw' = request_redraw(pending_redraw)
            /\ calls' = <<"create_window", "create_surface", "request_adapter",
                          "request_device", "configure", "create_render_pipeline",
                          "create_buffer_init", "create_buffer_init",
                          "create_buffer_init", "create_bind_group",
                          "request_redraw">>
            /\ UNCHANGED panicked
       ELSE /\ panicked' = TRUE
            /\ calls' = <<"create_window", "create_surface", "request_adapter">>
            /\ UNCHANGED <<instance, device, queue, config, surface,
                           render_pipeline, vertex_buffer, index_buffer,
                           uniform_buffer, uniform_bind_group, pending_redraw>>
    /\ resize_repeat' = FALSE
    /\ UNCHANGED <<camera, swapchain, exiting, exited, last_resize, acquire_plan,
                   last_motion, draw_call>>

-----------------------------------------------------------------------------
(* WindowEvent::CloseRequested.                                            *)

\* a close handler that also drops the window
CloseRequested_dropping_window ==
    /\ Running /\ window
    /\ exiting' = TRUE
    /\ window' = FALSE
    /\ calls' = <<"exit">>
    /\ last_event' = "CloseRequested"
    /\ resize_repeat' = FALSE
    /\ UNCHANGED <<instance, device, queue, config, camera,
                   render_pipeline, vertex_buffer, index_buffer, uniform_buffer,
                   uniform_bind_group, pending_redraw, surface, swapchain,
                   exited, panicked, last_resize, acquire_plan, last_motion,
                   draw_call>>

CloseRequested ==
    /\ Running /\ window
    /\ exiting' = TRUE
    /\ calls' = <<"exit">>
    /\ last_event' = "CloseRequested"
    /\ resize_repeat' = FALSE
    /\ UNCHANGED <<window, instance, device, queue, config, camera,
                   render_pipeline, vertex_buffer, index_buffer, uniform_buffer,
                   uniform_bind_group, pending_redraw, surface, swapchain,
                   exited, panicked, last_resize, acquire_plan, last_motion,
                   draw_call>>

-----------------------------------------------------------------------------
(* WindowEvent::RedrawRequested: self.render(), then request_redraw().     *)
(* plan: the results the surface gives to this frame's acquires.           *)
(* The window system delivers the event for a pending request or on its    *)
(* own (an exposed window), and a delivery uses up the pending request.    *)

RedrawRequested(plan, accepts) ==
    /\ Running /\ window
    /\ last_event' = "RedrawRequested"
    /\ IF render_ready
       THEN LET cfg == Unwrap(config)
                configured == configure_returns(cfg.width, cfg.height, accepts)
                cs == render_calls(configured, plan[1])
                done == configured /\ plan[1] = "Ok"
            IN  /\ accepts \in configure_outcomes(cfg.width, cfg.height)
                /\ acquire_plan' = IF configured THEN plan ELSE <<>>
                /\ surface' = IF configured
                              THEN Some([width |-> cfg.width, height |-> cfg.height])
                              ELSE None
                /\ swapchain' = track_all(swapchain, cs, plan[1])
                /\ uniform_buffer' = IF Has(cs, "write_buffer")
                                     THEN Some(Uniforms(camera)) ELSE uniform_buffer
                /\ panicked' = ~done
                /\ draw_call' = IF Has(cs, "draw_indexed")
                                THEN Some(draw_indexed_args) ELSE None
                /\ camera' = render_camera(camera, cfg)
                /\ calls' = IF done THEN cs \o <<"request_redraw">> ELSE cs
                /\ pending_redraw' = IF done THEN request_redraw(0) ELSE 0
       ELSE /\ calls' = <<"request_redraw">>
            /\ pending_redraw' = request_redraw(0)
            /\ acquire_plan' = <<>>
            /\ UNCHANGED <<surface, swapchain, uniform_buffer, panicked,
                           draw_call, camera>>
    /\ resize_repeat' = FALSE
    /\ UNCHANGED <<window, instance, device, queue, config,
                   render_pipeline, vertex_buffer, index_buffer,
                   uniform_bind_group, exiting, exited, last_resize,
                   last_motion>>

-----------------------------------------------------------------------------
(* WindowEvent::Resized(physical_size).                                    *)

Resized(w, h, accepts) ==
    /\ Running /\ window
    /\ last_event' = "Resized"
    /\ last_resize' = Some([width |-> w, height |-> h])
    /\ resize_repeat' = (last_event = "Resized"
                            /\ last_resize = Some([width |-> w, height |-> h]))
    /\ IF device /\ instance /\ IsSome(config)
       THEN LET configured == configure_returns(w, h, accepts)
            IN  /\ config' = Some(resize_config(Unwrap(config), w, h))
                /\ surface' = IF configured
                              THEN Some([width |-> w, height |-> h])
                              ELSE None
                /\ camera' = IF configured
                             THEN [camera EXCEPT !.aspect = F32Div(w, h)]
                             ELSE camera
                /\ panicked' = ~configured
                /\ calls' = <<"create_surface", "configure">> \o
                            (IF configured THEN <<"request_redraw">> ELSE <<>>)
                /\ pending_redraw' = IF configured
                                     THEN request_redraw(pending_redraw)
                                     ELSE pending_redraw
       ELSE /\ calls' = <<"request_redraw">>
            /\ pending_redraw' = request_redraw(pending_redraw)
            /\ UNCHANGED <<config, surface, camera, panicked>>
    /\ UNCHANGED <<window, instance, device, queue, render_pipeline,
                   vertex_buffer, index_buffer, uniform_buffer,
                   uniform_bind_group, swapchain, exiting, exited, acquire_plan,
                   last_motion, draw_call>>

-----------------------------------------------------------------------------
(* DeviceEvent::MouseMotion { delta }.                                     *)

\* a motion handler that also moves the camera sideways
apply_motion_strafing(c, dx, dy) ==
    [c EXCEPT !.rotation = Rotate(@, dx, dy),
              !.position = <<c.position[1] + dx, c.position[2], c.position[3]>>]

\* self.camera.rotation = rot_y * rot_x * self.camera.rotation
apply_motion(c, dx, dy) == [c EXCEPT !.rotation = Rotate(@, dx, dy)]

MouseMotion(dx, dy) ==
    /\ Running
    /\ Len(camera.rotation) < 2 * MaxMotions
    /\ last_event' = "MouseMotion"
    /\ calls' = <<>>
    /\ last_motion' = Some(<<dx, dy>>)
    /\ resize_repeat' = FALSE
    /\ camera' = IF window THEN apply_motion(camera, dx, dy) ELSE camera
    /\ UNCHANGED <<window, instance, device, queue, config, render_pipeline,
                   vertex_buffer, index_buffer, uniform_buffer,
                   uniform_bind_group, pending_redraw, surface, swapchain,
                   exiting, exited, panicked, last_resize, acquire_plan,
                   draw_call>>

-----------------------------------------------------------------------------
(* The event loop sees that exit() was called and run_app returns.         *)

LoopExit ==
    /\ Running /\ exiting
    /\ exited' = TRUE
    /\ UNCHANGED <<window, instance, device, queue, config, camera,
                   render_pipeline, vertex_buffer, index_buffer, uniform_buffer,
                   uniform_bind_group, pending_redraw, surface, swapchain,
                   exiting, panicked, calls, last_event, last_resize,
                   acquire_plan, last_motion, resize_repeat, draw_call>>

-----------------------------------------------------------------------------

Next ==
    \/ \E w \in 1 .. MaxDim, h \in 1 .. MaxDim, found \in BOOLEAN :
          Resumed(w, h, found)
    \/ CloseRequested
    \/ \E plan \in AcquirePlans, accepts \in BOOLEAN :
          RedrawRequested(plan, accepts)
    \/ \E w \in Dims, h \in Dims :
          \E accepts \in configure_outcomes(w, h) : Resized(w, h, accepts)
    \/ \E dx \in Deltas, dy \in PitchDeltas : MouseMotion(dx, dy)
    \/ LoopExit

Spec == Init /\ [][Next]_vars

-----------------------------------------------------------------------------
(* Properties.                                                             *)

Count(s, c) == Cardinality({i \in 1 .. Len(s) : s[i] = c})

\* position of the first c in s, 0 when there is none
IndexOf(s, c) == IF Has(s, c) THEN CHOOSE i \in 1 .. Len(s) :
                                      s[i] = c /\ \A j \in 1 .. i - 1 : s[j] # c
                 ELSE 0

ZeroArea(size) == size.width = 0 \/ size.height = 0

\* the step is a callback of the application, not the stop of the loop
HandlerStep == ~exited'

\* the step is the handling of a Resized event of zero area / of zero height
ZeroAreaResizeStep ==
    HandlerStep /\ last_event' = "Resized" /\ ZeroArea(Unwrap(last_resize'))
ZeroHeightResizeStep ==
    HandlerStep /\ last_event' = "Resized" /\ Unwrap(last_resize').height = 0

\* C1: a frame handled after a Resized(w, h) event configures its surface
\* before it acquires the image, and configures it with width w and height h,
\* the size of the latest resize.
C1_FrameUsesLatestResize ==
    (last_event = "RedrawRequested" /\ Has(calls, "get_current_texture")
        /\ IsSome(last_resize))
    => /\ surface = last_resize
       /\ 0 < IndexOf(calls, "configure")
       /\ IndexOf(calls, "configure") < IndexOf(calls, "get_current_texture")

\* a frame was presented at 2x1 after the window opened at another size
\* and was resized to 2x1
C1_Witness ==
    /\ last_event = "RedrawRequested" /\ Has(calls, "present")
    /\ last_resize = Some([width |-> 2, height |-> 1])
    /\ surface = Some([width |-> 2, height |-> 1])
    /\ Unwrap(uniform_buffer).proj.aspect = Finite(2, 1)

\* C2 (as claimed): handling a Resized event of height 0 leaves camera.aspect
\* as it was.  (The f32 division itself never traps.)
C2_ZeroHeightKeepsAspect ==
    [][ZeroHeightResizeStep => camera'.aspect = camera.aspect]_vars

\* C3 (as claimed): handling a Resized event of zero area leaves the stored
\* surface configuration as it was and makes no surface.configure call.
C3_ZeroAreaResizeIsNoOp ==
    [][ZeroAreaResizeStep => (config' = config /\ ~Has(calls', "configure"))]_vars

\* C4 (as claimed): camera.aspect > 0 in every reachable state.
C4_AspectPositive == F32Positive(camera.aspect)

\* C5 (as claimed): when the first acquire of a frame fails as lost or outdated
\* and a second one would succeed, the frame reconfigures the surface once
\* after the failure, acquires a second time and presents.
C5_LostOnceStillPresents ==
    (last_event = "RedrawRequested" /\ Len(acquire_plan) = 2
        /\ acquire_plan[1] \in {"Lost", "Outdated"} /\ acquire_plan[2] = "Ok")
    => /\ ~panicked
       /\ Count(calls, "get_current_texture") = 2
       /\ Count(calls, "configure") = 2
       /\ Count(calls, "present") = 1

\* C6 (as claimed): when the acquire and its retry both fail as lost, the
\* frame presents nothing and the process lives on.
C6_LostTwiceSkipsFrame ==
    (last_event = "RedrawRequested" /\ acquire_plan = <<"Lost", "Lost">>)
    => (~panicked /\ ~Has(calls, "present"))

\* C7: an image is presented only after the commands recorded for it were
\* submitted, an image is acquired only when the previous one has been
\* presented, and so at most one frame is ever in flight; between two
\* callbacks none is.
C7_OneFrameInFlight ==
    /\ ~swapchain.early_present
    /\ swapchain.peak <= 1
    /\ swapchain.acquired = 0
    /\ Has(calls, "present") =>
          /\ IndexOf(calls, "get_current_texture") < IndexOf(calls, "submit")
          /\ IndexOf(calls, "submit") < IndexOf(calls, "present")
          /\ Count(calls, "get_current_texture") = 1
          /\ Count(calls, "present") = 1

\* a frame was acquired, submitted and presented, after a mouse motion that
\* followed the first frame's uniform upload
C7_Witness ==
    /\ last_event = "RedrawRequested" /\ Has(calls, "present")
    /\ swapchain.peak = 1 /\ swapchain.submitted
    /\ Unwrap(uniform_buffer).view.rotation # <<>>

\* C8 (as claimed): once a frame has completed and no CloseRequested has been
\* handled, the render loop goes on: the process is alive and exactly one
\* redraw request is pending, so that another frame follows.
C8_LoopContinues ==
    (swapchain.peak > 0 /\ ~exiting) => (~panicked /\ pending_redraw = 1)

-----------------------------------------------------------------------------
(* Geometry properties.                                                    *)

\* the position of vertex i (u16 index, from 0) of a vertex table
Position(vertices, i) == vertices[i + 1].position

\* entry k (from 0) of an index table
Index(indices, k) == indices[k + 1]

Sub(a, b) == <<a[1] - b[1], a[2] - b[2], a[3] - b[3]>>
Dot(a, b) == a[1] * b[1] + a[2] * b[2] + a[3] * b[3]
Cross(a, b) == <<a[2] * b[3] - a[3] * b[2],
                 a[3] * b[1] - a[1] * b[3],
                 a[1] * b[2] - a[2] * b[1]>>

\* (v1 - v0) x (v2 - v0) of triangle t (from 0)
TriangleNormal(vertices, indices, t) ==
    LET v0 == Position(vertices, Index(indices, 3 * t))
        v1 == Position(vertices, Index(indices, 3 * t + 1))
        v2 == Position(vertices, Index(indices, 3 * t + 2))
    IN  Cross(Sub(v1, v0), Sub(v2, v0))

UnitNormals == {<<1, 0, 0>>, <<-1, 0, 0>>, <<0, 1, 0>>, <<0, -1, 0>>,
                <<0, 0, 1>>, <<0, 0, -1>>}

\* face f (from 0) is two triangles (a,b,c),(c,d,a) on 4 distinct vertices
FacePaired(indices, f) ==
    LET a == Index(indices, 6 * f)
        b == Index(indices, 6 * f + 1)
        c == Index(indices, 6 * f + 2)
        d == Index(indices, 6 * f + 4)
    IN  /\ Index(indices, 6 * f + 3) = c
        /\ Index(indices, 6 * f + 5) = a
        /\ Cardinality({a, b, c, d}) = 4

\* face f lies in a side of the cube with outward normal n, and both its
\* triangles turn counter-clockwise about n
FaceOutward(vertices, indices, f) ==
    \E n \in UnitNormals :
        /\ \A k \in 6 * f .. 6 * f + 5 :
              Dot(Position(vertices, Index(indices, k)), n) = 1
        /\ \A t \in {2 * f, 2 * f + 1} :
              LET c == TriangleNormal(vertices, indices, t)
              IN  Dot(c, n) > 0 /\ Cross(c, n) = <<0, 0, 0>>

\* C9: the index buffer holds 36 indices, each in 0..7, into the 8 vertices,
\* and each of the 6 faces is two triangles (a,b,c),(c,d,a) on 4 distinct
\* vertices.
C9_IndexBufferIntegrity ==
    (IsSome(index_buffer) /\ IsSome(vertex_buffer)) =>
        LET indices == Unwrap(index_buffer) IN
        /\ Len(indices) = 36
        /\ Len(Unwrap(vertex_buffer)) = 8
        /\ \A k \in 1 .. Len(indices) : indices[k] \in 0 .. 7
        /\ \A f \in 0 .. 5 : FacePaired(indices, f)

\* a frame drew the 36 indices of the buffer
C9_Witness ==
    /\ IsSome(index_buffer) /\ Len(Unwrap(index_buffer)) = 36
    /\ Has(calls, "draw_indexed")

\* C10: with front face = CCW and back faces culled, each of the 12 triangles
\* is counter-clockwise seen from outside: (v1 - v0) x (v2 - v0) points along
\* the outward normal of its face.
C10_OutwardWinding ==
    (IsSome(index_buffer) /\ IsSome(vertex_buffer) /\ IsSome(render_pipeline)) =>
        /\ Unwrap(render_pipeline).front_face = "Ccw"
        /\ Unwrap(render_pipeline).cull_mode = "Back"
        /\ \A f \in 0 .. 5 :
              FaceOutward(Unwrap(vertex_buffer), Unwrap(index_buffer), f)

\* a frame drew the cube with the culling pipeline bound
C10_Witness ==
    /\ IsSome(render_pipeline) /\ IsSome(vertex_buffer) /\ IsSome(index_buffer)
    /\ Has(calls, "set_pipeline") /\ Has(calls, "draw_indexed")
    /\ TriangleNormal(Unwrap(vertex_buffer), Unwrap(index_buffer), 0) = <<0, 0, 4>>

\* C11 as stated: once CloseRequested has been handled no further event is
\* dispatched, no frame is acquired, submitted or presented, and the camera
\* and the surface configuration stay as they are.
C11_NothingAfterClose ==
    [][exiting => /\ last_event' = last_event
                  /\ calls' = calls
                  /\ swapchain' = swapchain
                  /\ camera' = camera
                  /\ config' = config]_vars

\* the step is the handling of a CloseRequested event
CloseStep == HandlerStep /\ last_event' = "CloseRequested" /\ ~exiting

\* C11: handling CloseRequested only asks the loop to exit: it makes no GPU
\* call and changes neither the camera, the surface configuration nor any
\* GPU resource; the request is never withdrawn; and once the loop has
\* stopped nothing is dispatched any more.  (Events dispatched between the
\* request and the stop are handled as usual.)
C11_CloseOnlyRequestsExit ==
    [][/\ CloseStep => /\ exiting'
                       /\ calls' = <<"exit">>
                       /\ UNCHANGED <<window, config, camera, surface, swapchain,
                                      render_pipeline, vertex_buffer,
                                      index_buffer, uniform_buffer,
                                      pending_redraw, panicked>>
       /\ exiting => exiting'
       /\ exited => UNCHANGED vars]_vars

\* the loop stopped after close was requested and a whole frame was still
\* presented in between
C11_Witness ==
    /\ exited /\ exiting
    /\ last_event = "RedrawRequested" /\ Has(calls, "present")

\* C12: handling Resized(w, h) a second time in a row leaves the stored
\* surface configuration and the camera aspect as the first handling left
\* them.
C12_ResizeIdempotent ==
    [][(HandlerStep /\ last_event = "Resized" /\ last_event' = "Resized"
           /\ last_resize' = last_resize)
       => /\ config' = config
          /\ camera'.aspect = camera.aspect]_vars

\* the same Resized(2, 1) was handled twice in a row
C12_Witness ==
    /\ resize_repeat /\ ~panicked
    /\ last_resize = Some([width |-> 2, height |-> 1])
    /\ Unwrap(config).width = 2 /\ Unwrap(config).height = 1
    /\ camera.aspect = Finite(2, 1)

\* the rounding the fixed-point products may add up to: 1/1000
UnitTolerance == Scale \div 1000

MotionStep == HandlerStep /\ last_event' = "MouseMotion" /\ window

FramePresented == last_event = "RedrawRequested" /\ Has(calls, "present")

\* C15: a frame that succeeds acquires, updates the uniforms, records,
\* submits and presents in this order, each once, with one uniform write and
\* one draw_indexed(0..36, 0, 0..1).
C15_FrameOrder ==
    FramePresented =>
        /\ \A c \in {"get_current_texture", "write_buffer", "begin_render_pass",
                      "draw_indexed", "submit", "present"} : Count(calls, c) = 1
        /\ IndexOf(calls, "get_current_texture") < IndexOf(calls, "write_buffer")
        /\ IndexOf(calls, "write_buffer") < IndexOf(calls, "begin_render_pass")
        /\ IndexOf(calls, "begin_render_pass") < IndexOf(calls, "draw_indexed")
        /\ IndexOf(calls, "draw_indexed") < IndexOf(calls, "submit")
        /\ IndexOf(calls, "submit") < IndexOf(calls, "present")
        /\ draw_call = Some([indices |-> <<0, 36>>, base_vertex |-> 0,
                             instances |-> <<0, 1>>])

\* a whole frame was rendered and its draw recorded
C15_Witness ==
    /\ FramePresented /\ ~panicked
    /\ IsSome(draw_call) /\ Unwrap(draw_call).indices = <<0, 36>>

\* C16: when a frame is submitted the uniform buffer holds the view_proj of
\* the camera as it is at that frame, written before the submit.
C16_UniformIsCurrentCamera ==
    (last_event = "RedrawRequested" /\ Has(calls, "submit")) =>
        /\ uniform_buffer = Some([proj |-> projection_matrix(camera),
                                  view |-> view_matrix(camera)])
        /\ Has(calls, "write_buffer")
        /\ IndexOf(calls, "write_buffer") < IndexOf(calls, "submit")

\* a frame was submitted after the camera was turned and its aspect changed
C16_Witness ==
    /\ last_event = "RedrawRequested" /\ Has(calls, "submit")
    /\ camera.rotation # <<>> /\ camera.aspect # CameraDefault.aspect
    /\ Unwrap(uniform_buffer).proj.aspect = camera.aspect

\* the step is the handling of a RedrawRequested event
RedrawStep == HandlerStep /\ last_event' = "RedrawRequested"

\* C17: rendering a frame leaves the camera, the vertex and index data, the
\* pipeline and the stored surface configuration as they are.
C17_RenderReadOnly ==
    [][RedrawStep => UNCHANGED <<camera, vertex_buffer, index_buffer,
                                 render_pipeline, config, uniform_bind_group>>]_vars

\* a frame changed the uniform buffer: it now holds a turned camera, in a
\* surface that is not square
C17_Witness ==
    /\ FramePresented
    /\ Unwrap(uniform_buffer).view.rotation = camera.rotation
    /\ camera.rotation # <<>>
    /\ Unwrap(config).width = 2 /\ Unwrap(config).height = 1
    /\ camera.aspect = CameraDefault.aspect

\* C18: once created, the pipeline, the surface format, the present mode
\* (Fifo) and the alpha mode never change; a Resized event changes nothing of
\* the configuration but its width and height.
C18_ConfigStable ==
    [][/\ IsSome(render_pipeline) => render_pipeline' = render_pipeline
       /\ IsSome(config) =>
             /\ IsSome(config')
             /\ Unwrap(config') = [Unwrap(config) EXCEPT
                                      !.width = Unwrap(config').width,
                                      !.height = Unwrap(config').height]
             /\ Unwrap(config').present_mode = "Fifo"
             /\ Unwrap(config').format = Unwrap(render_pipeline').format]_vars

\* a resize changed the size of a configuration
C18_Witness ==
    /\ last_event = "Resized" /\ ~panicked
    /\ Unwrap(config).width = 1 /\ Unwrap(config).height = 2
    /\ Unwrap(config).present_mode = "Fifo"
    /\ IsSome(render_pipeline)

\* C19 as stated: whenever a frame is rendered, the camera's aspect is the
\* width / height of the configuration applied to the surface.
C19_AspectMatchesSurface ==
    FramePresented =>
        camera.aspect = F32Div(Unwrap(surface).width, Unwrap(surface).height)

\* C20: a MouseMotion event changes the camera's rotation and nothing else:
\* no other camera field, no configuration, no GPU resource, and it makes no
\* GPU call and asks for no redraw.
C20_MotionOnlyRotates ==
    [][(HandlerStep /\ last_event' = "MouseMotion") =>
          /\ camera' = [camera EXCEPT !.rotation = camera'.rotation]
          /\ calls' = <<>>
          /\ UNCHANGED <<window, config, surface, swapchain, render_pipeline,
                         vertex_buffer, index_buffer, uniform_buffer,
                         uniform_bind_group, pending_redraw, exiting,
                         panicked>>]_vars

\* a motion turned the camera after a frame, and the uniform buffer still
\* holds the view of that frame
C20_Witness ==
    /\ last_event = "MouseMotion" /\ swapchain.peak > 0
    /\ camera.rotation # <<>>
    /\ Unwrap(uniform_buffer).view.rotation = <<>>
    /\ calls = <<>>

====
